---- MODULE Spec2Model ----
(***************************************************************************)
(* Inventory service: the first program of src/index.js (lines 1-124).    *)
(* src/unnamed/part_000 has the same handlers; the second program of       *)
(* src/index.js (lines 126-308) differs in POST /search, which builds a    *)
(* new object instead of writing on the stored item.  The state is the     *)
(* in-memory array `inventory`, the counter `nextId`, the cache directory  *)
(* written by multer, the clock read by Date.now(), and the multipart      *)
(* requests that multer has parsed but whose handler has not run yet (a    *)
(* bag: handlers run in any order).  The text fields and the path of such  *)
(* a request are read by nobody but its own handler, so they are drawn     *)
(* when the handler runs; the file part is written, and named from the     *)
(* clock, when multer parses it.                                           *)
(*                                                                         *)
(* JavaScript values are records [t, n, s]: t is the type tag, n the       *)
(* number (for t = "num", and 1 or 0 for t = "bool"), s the string (for    *)
(* t = "str").  An object is a                                             *)
(* function from property names to values; a missing property reads as     *)
(* Undef.                                                                  *)
(*                                                                         *)
(* `last` is the answer to the request handled last.  Three variables are  *)
(* history, read by the properties only: `assigned` lists the ids the      *)
(* register handler returned, `deleted` holds <<id, Len(assigned)>> for    *)
(* each delete that succeeded, `overlapped` says that a register handler   *)
(* took an id while another register request was waiting for its handler.  *)
(***************************************************************************)
EXTENDS Integers, Sequences, FiniteSets, Bags, TLC

\* ---------------------------------------------------------------- bounds
MaxId == 2         \* registrations that succeed in one run
MaxNow == 1        \* clock values 0..MaxNow
MaxPending == 2    \* multipart requests parsed and waiting for their handler
MaxBodyFields == 1 \* properties in the JSON body of PUT /inventory/:id

\* ------------------------------------------------------- JavaScript values
Num(n) == [t |-> "num", n |-> n, s |-> ""]
Str(s) == [t |-> "str", n |-> 0, s |-> s]
Null == [t |-> "null", n |-> 0, s |-> ""]
Undef == [t |-> "undef", n |-> 0, s |-> ""]
NaN == [t |-> "nan", n |-> 0, s |-> ""]
True == [t |-> "bool", n |-> 1, s |-> ""]

\* o.f : a property read
Prop(o, f) == IF f \in DOMAIN o THEN o[f] ELSE Undef

\* the condition of `if (v)`, `v || d`, `v ? a : b`
Truthy(v) ==
    CASE v.t = "num" -> v.n # 0
      [] v.t = "str" -> v.s # ""
      [] v.t = "bool" -> v.n # 0
      [] OTHER -> FALSE

\* `${v}` and string + value
ToStr(v) ==
    CASE v.t = "num" -> ToString(v.n)
      [] v.t = "str" -> v.s
      [] v.t = "null" -> "null"
      [] v.t = "nan" -> "NaN"
      [] v.t = "bool" -> IF v.n # 0 THEN "true" ELSE "false"
      [] OTHER -> "undefined"

\* Number(v): a decimal numeral parses to its number, "" and null to 0,
\* true to 1 and false to 0, anything else (other strings, undefined) to NaN
Number(v) ==
    CASE v.t = "num" -> v
      [] v.t = "str" ->
           IF v.s = "" THEN Num(0)
           ELSE IF \E k \in 0..(MaxId + 1) : ToString(k) = v.s
                THEN Num(CHOOSE k \in 0..(MaxId + 1) : ToString(k) = v.s)
                ELSE NaN
      [] v.t = "null" -> Num(0)
      [] v.t = "bool" -> Num(v.n)
      [] OTHER -> NaN

\* a === b : same type and same value; NaN equals nothing
StrictEq(a, b) == a.t = b.t /\ a.t # "nan" /\ a = b

\* -------------------------------------------------------------- the state
VARIABLES inventory, nextId, files, now, pending, last, assigned, deleted, overlapped

vars == <<inventory, nextId, files, now, pending, last, assigned, deleted, overlapped>>

\* configuration: `http://${host}:${port}`
Base == "http://h:p"

\* const getItem = id => inventory.find(x => x.id === Number(id));
\* the index of the first match, 0 for undefined
getItemIn(inv, id) ==
    IF \E i \in 1..Len(inv) : StrictEq(Prop(inv[i], "id"), Number(id))
    THEN CHOOSE i \in 1..Len(inv) :
            /\ StrictEq(Prop(inv[i], "id"), Number(id))
            /\ \A j \in 1..(i - 1) : ~StrictEq(Prop(inv[j], "id"), Number(id))
    ELSE 0

getItem(id) == getItemIn(inventory, id)

\* item.photo ? `http://${host}:${port}/images/${item.photo}` : null
PhotoUrl(item) ==
    IF Truthy(Prop(item, "photo"))
    THEN Str(Base \o "/images/" \o ToStr(Prop(item, "photo")))
    ELSE Null

\* { ...item, photo_url: ... } : a new object
Present(item) ==
    [f \in DOMAIN item \cup {"photo_url"} |->
        IF f = "photo_url" THEN PhotoUrl(item) ELSE item[f]]

\* a slip: item = body instead of a merge
ObjectReplace(item, body) == body

\* Object.assign(item, body)
ObjectAssign(item, body) ==
    [f \in DOMAIN item \cup DOMAIN body |->
        IF f \in DOMAIN body THEN body[f] ELSE item[f]]

\* filename: Date.now() + "_" + file.originalname
Filename(clock, originalname) == ToString(clock) \o "_" \o originalname

\* the response recorded for the last request handled
Response(op, status, out, data) ==
    [op |-> op, status |-> status, out |-> out, data |-> data]

NoBody == [f \in {} |-> Undef]

Init ==
    /\ inventory = <<>>
    /\ nextId = 1
    /\ files = [f \in {} |-> 0]
    /\ now = 0
    /\ pending = EmptyBag
    /\ last = Response("start", 0, <<>>, 0)
    /\ assigned = <<>>
    /\ deleted = {}
    /\ overlapped = FALSE

\* Date.now() advances between requests
Tick ==
    /\ now < MaxNow
    /\ now' = now + 1
    /\ UNCHANGED <<inventory, nextId, files, pending, last, assigned, deleted, overlapped>>

\* ------------------------------------------------------- request inputs
\* req.params.id
PathKeys == {ToString(k) : k \in 1..MaxId} \cup {"abc"}

\* text fields of a multipart form
FormFields == {"inventory_name", "description"}

FormFieldVals(f) == IF f = "inventory_name" THEN {Str(""), Str("a")} ELSE {Str("d")}

FormBodies ==
    {b \in UNION {[S -> {Str(""), Str("a"), Str("d")}] : S \in SUBSET FormFields} :
        \A f \in DOMAIN b : b[f] \in FormFieldVals(f)}

\* JSON bodies of PUT /inventory/:id
BodyFields == {"id", "inventory_name", "description", "photo"}

BodyFieldVals(f) ==
    CASE f = "id" -> {Num(k) : k \in 1..MaxId}
      [] f = "inventory_name" -> {Str("")}
      [] f = "description" -> {Str("e")}
      [] OTHER -> {Str("x.jpg")}

JsonBodies ==
    {b \in UNION {[S -> UNION {BodyFieldVals(f) : f \in BodyFields}] :
                    S \in {T \in SUBSET BodyFields : Cardinality(T) <= MaxBodyFields}} :
        \A f \in DOMAIN b : b[f] \in BodyFieldVals(f)}

\* bodies of POST /search
SearchBodies ==
    {b \in UNION {[S -> {Num(k) : k \in 1..MaxId} \cup {Str("1"), Str("abc"), True, Str("on")}] :
                    S \in SUBSET {"id", "has_photo"}} :
        /\ "id" \in DOMAIN b => b["id"] # Str("on")
        /\ "has_photo" \in DOMAIN b => b["has_photo"] = Str("on")}

\* a slip: splice(index) without the count removes up to the end
SpliceToEnd(s, i) == SubSeq(s, 1, i - 1)

\* inventory.splice(index, 1)
RemoveAt(s, i) == SubSeq(s, 1, i - 1) \o SubSeq(s, i + 1, Len(s))

\* ------------------------------------------------------------ Photo Store
\* upload.single("photo"): multer parses the form, names the file part from
\* the clock, writes it to the cache directory and only then calls the
\* handler; between the two, other requests run.
Multer(op, hasFile, originalname, bytes) ==
    /\ BagCardinality(pending) < MaxPending
    /\ LET name == Filename(now, originalname)
           file == IF hasFile THEN Str(name) ELSE Undef
       IN /\ files' = IF hasFile
                      THEN [f \in DOMAIN files \cup {name} |->
                               IF f = name THEN bytes ELSE files[f]]
                      ELSE files
          /\ pending' = pending (+) SetToBag({[op |-> op, file |-> file,
                                               bytes |-> IF hasFile THEN bytes ELSE 0]})
    /\ UNCHANGED <<inventory, nextId, now, last, assigned, deleted, overlapped>>

\* POST /register arrives: multer runs first
UploadRegister(hasFile, originalname, bytes) ==
    Multer("register", hasFile, originalname, bytes)

\* PUT /inventory/:id/photo arrives: multer runs first
UploadPhoto(hasFile, originalname, bytes) ==
    Multer("updatePhoto", hasFile, originalname, bytes)

\* ---------------------------------------------------------- Item Registry
\* a slip: the id taken from the size of the collection
AllocIdFromLength == Len(inventory) + 1

\* id: nextId++  (the value the new item gets)
AllocId == nextId

\* a slip: the counter left as it was
NoIncrement(n) == n

\* id: nextId++  (the counter afterwards)
PostIncrement(n) == n + 1

\* a slip: only an absent name rejected, the empty string let through
NameUndefined(body) == "inventory_name" \notin DOMAIN body

\* if (!req.body.inventory_name) return res.status(400)
NameMissing(body) == ~Truthy(Prop(body, "inventory_name"))

\* const item = { id, inventory_name, description, photo }
NewItem(id, body, file) ==
    [f \in {"id", "inventory_name", "description", "photo"} |->
        CASE f = "id" -> Num(id)
          [] f = "inventory_name" -> Prop(body, "inventory_name")
          [] f = "description" ->
               IF Truthy(Prop(body, "description")) THEN Prop(body, "description") ELSE Str("")
          [] OTHER -> IF Truthy(file) THEN file ELSE Null]

\* a slip: the new item put in front
Unshift(inv, item) == <<item>> \o inv

\* inventory.push(item)
Push(inv, item) == Append(inv, item)

\* app.post("/register", upload.single("photo"), (req, res) => ...)
Register(r, body) ==
    /\ BagIn(r, pending)
    /\ r.op = "register"
    /\ LET rest == pending (-) SetToBag({r})
           item == NewItem(AllocId, body, r.file)
       IN IF NameMissing(body)
          THEN /\ last' = Response("register", 400, <<>>, 0)
               /\ UNCHANGED <<inventory, nextId, assigned, overlapped>>
          ELSE /\ nextId <= MaxId
               /\ inventory' = Push(inventory, item)
               /\ nextId' = PostIncrement(nextId)
               /\ last' = Response("register", 201, <<item>>, 0)
               /\ assigned' = Append(assigned, item["id"])
               /\ overlapped' = (overlapped \/ \E q \in BagToSet(rest) : q.op = "register")
    /\ pending' = pending (-) SetToBag({r})
    /\ UNCHANGED <<files, now, deleted>>

\* inventory.map(i => ({ ...i, photo_url: ... }))
ListBody == [i \in 1..Len(inventory) |-> Present(inventory[i])]

\* app.get("/inventory", ...)
List ==
    /\ last' = Response("list", 200, ListBody, 0)
    /\ UNCHANGED <<inventory, nextId, files, now, pending, assigned, deleted, overlapped>>

\* the answer of GET /inventory/:id
GetResponse(key) ==
    LET idx == getItem(Str(key))
    IN IF idx = 0
       THEN Response("get", 404, <<>>, 0)
       ELSE Response("get", 200, <<Present(inventory[idx])>>, 0)

\* app.get("/inventory/:id", ...)
Get(key) ==
    /\ last' = GetResponse(key)
    /\ UNCHANGED <<inventory, nextId, files, now, pending, assigned, deleted, overlapped>>

\* the answer of GET /inventory/:id/photo: res.sendFile(item.photo, { root: cache })
\* sends the bytes of the file of that name
GetPhotoResponse(key) ==
    LET idx == getItem(Str(key))
        photo == IF idx = 0 THEN Undef ELSE Prop(inventory[idx], "photo")
    IN IF ~Truthy(photo)
       THEN Response("getPhoto", 404, <<>>, 0)
       ELSE IF photo.t # "str"
       THEN Response("getPhoto", 500, <<>>, 0)
       ELSE IF photo.s \notin DOMAIN files
       THEN Response("getPhoto", 404, <<>>, 0)
       ELSE Response("getPhoto", 200, <<>>, files[photo.s])

\* app.get("/inventory/:id/photo", ...)
GetPhoto(key) ==
    /\ last' = GetPhotoResponse(key)
    /\ UNCHANGED <<inventory, nextId, files, now, pending, assigned, deleted, overlapped>>

\* PUT /inventory/:id : the collection after Object.assign(item, req.body)
UpdateFieldsInventory(key, body) ==
    LET idx == getItem(Str(key))
    IN IF idx = 0
       THEN inventory
       ELSE [inventory EXCEPT ![idx] = ObjectAssign(@, body)]

\* PUT /inventory/:id : 404, or res.json(item) after the merge
UpdateFieldsResponse(key, body) ==
    LET idx == getItem(Str(key))
    IN IF idx = 0
       THEN Response("updateFields", 404, <<>>, 0)
       ELSE Response("updateFields", 200, <<ObjectAssign(inventory[idx], body)>>, 0)

\* app.put("/inventory/:id", ...)
UpdateFields(key, body) ==
    /\ inventory' = UpdateFieldsInventory(key, body)
    /\ last' = UpdateFieldsResponse(key, body)
    /\ UNCHANGED <<nextId, files, now, pending, assigned, deleted, overlapped>>

\* PUT /inventory/:id/photo : the collection after item.photo = req.file.filename
UpdatePhotoInventory(r, key) ==
    LET idx == getItem(Str(key))
    IN IF idx = 0 \/ ~Truthy(r.file)
       THEN inventory
       ELSE [inventory EXCEPT ![idx] = ObjectAssign(@, [f \in {"photo"} |-> r.file])]

\* a slip: the file looked at before the item
UpdatePhotoResponseFileFirst(r, key) ==
    LET idx == getItem(Str(key))
    IN IF ~Truthy(r.file)
       THEN Response("updatePhoto", 400, <<>>, 0)
       ELSE IF idx = 0
       THEN Response("updatePhoto", 404, <<>>, 0)
       ELSE Response("updatePhoto", 200, <<UpdatePhotoInventory(r, key)[idx]>>, 0)

\* PUT /inventory/:id/photo : 404 without the item, then 400 without a file,
\* else res.json(item) after the assignment
UpdatePhotoResponse(r, key) ==
    LET idx == getItem(Str(key))
    IN IF idx = 0
       THEN Response("updatePhoto", 404, <<>>, 0)
       ELSE IF ~Truthy(r.file)
       THEN Response("updatePhoto", 400, <<>>, 0)
       ELSE Response("updatePhoto", 200, <<UpdatePhotoInventory(r, key)[idx]>>, 0)

\* app.put("/inventory/:id/photo", upload.single("photo"), (req, res) => ...)
UpdatePhoto(r, key) ==
    /\ BagIn(r, pending)
    /\ r.op = "updatePhoto"
    /\ inventory' = UpdatePhotoInventory(r, key)
    /\ last' = UpdatePhotoResponse(r, key)
    /\ pending' = pending (-) SetToBag({r})
    /\ UNCHANGED <<nextId, files, now, assigned, deleted, overlapped>>

\* DELETE /inventory/:id : the collection after findIndex and splice(index, 1)
DeleteInventory(key) ==
    LET index == getItem(Str(key))
    IN IF index = 0 THEN inventory ELSE RemoveAt(inventory, index)

\* DELETE /inventory/:id : 404, or the message
DeleteResponse(key) ==
    IF getItem(Str(key)) = 0
    THEN Response("delete", 404, <<>>, 0)
    ELSE Response("delete", 200, <<>>, 0)

\* app.delete("/inventory/:id", ...)
Delete(key) ==
    /\ inventory' = DeleteInventory(key)
    /\ last' = DeleteResponse(key)
    /\ deleted' = IF getItem(Str(key)) = 0
                  THEN deleted
                  ELSE deleted \cup {<<Number(Str(key)), Len(assigned)>>}
    /\ UNCHANGED <<nextId, files, now, pending, assigned, overlapped>>

\* POST /search : the item sent; with has_photo the handler first writes
\* photo_url on the stored item
SearchItem(body) ==
    LET idx == getItem(Prop(body, "id"))
    IN IF Truthy(Prop(body, "has_photo"))
       THEN ObjectAssign(inventory[idx], [f \in {"photo_url"} |-> PhotoUrl(inventory[idx])])
       ELSE inventory[idx]

\* POST /search : the collection afterwards
SearchInventory(body) ==
    LET idx == getItem(Prop(body, "id"))
    IN IF idx = 0 THEN inventory ELSE [inventory EXCEPT ![idx] = SearchItem(body)]

\* POST /search : 404, or res.json(item)
SearchResponse(body) ==
    IF getItem(Prop(body, "id")) = 0
    THEN Response("search", 404, <<>>, 0)
    ELSE Response("search", 200, <<SearchItem(body)>>, 0)

\* app.post("/search", ...)
Search(body) ==
    /\ inventory' = SearchInventory(body)
    /\ last' = SearchResponse(body)
    /\ UNCHANGED <<nextId, files, now, pending, assigned, deleted, overlapped>>

\* ------------------------------------------------------- specifications
\* Spec: identity and lifecycle of items.  Every operation; multipart
\* requests overlap freely; the JSON bodies name at most the id, searches
\* carry no has_photo flag, and the clock stands still.
IdBodies == {b \in JsonBodies : DOMAIN b \subseteq {"id"}}

IdSearches == {b \in SearchBodies : DOMAIN b = {"id"}}

Next ==
    \/ \E hasFile \in BOOLEAN : UploadRegister(hasFile, "p", 1)
    \/ \E hasFile \in BOOLEAN : UploadPhoto(hasFile, "p", 1)
    \/ \E r \in BagToSet(pending), body \in FormBodies : Register(r, body)
    \/ \E r \in BagToSet(pending), key \in PathKeys : UpdatePhoto(r, key)
    \/ List
    \/ \E key \in PathKeys : Get(key)
    \/ \E key \in PathKeys : GetPhoto(key)
    \/ \E key \in PathKeys, body \in IdBodies : UpdateFields(key, body)
    \/ \E key \in PathKeys : Delete(key)
    \/ \E body \in IdSearches : Search(body)

Spec == Init /\ [][Next]_vars

\* SpecFields: the fields of items.  Every operation; the JSON bodies name
\* any field; a multipart request arrives when no other one is waiting for
\* its handler; forms carry no description, searches no has_photo flag.
NameForms == {b \in FormBodies : DOMAIN b \subseteq {"inventory_name"}}

NextFields ==
    \/ \E hasFile \in BOOLEAN : pending = EmptyBag /\ UploadRegister(hasFile, "p", 1)
    \/ \E hasFile \in BOOLEAN : pending = EmptyBag /\ UploadPhoto(hasFile, "p", 1)
    \/ \E r \in BagToSet(pending), body \in NameForms : Register(r, body)
    \/ \E r \in BagToSet(pending), key \in PathKeys : UpdatePhoto(r, key)
    \/ List
    \/ \E key \in PathKeys : Get(key)
    \/ \E key \in PathKeys : GetPhoto(key)
    \/ \E key \in PathKeys, body \in JsonBodies : UpdateFields(key, body)
    \/ \E key \in PathKeys : Delete(key)
    \/ \E body \in IdSearches : Search(body)

SpecFields == Init /\ [][NextFields]_vars

\* SpecPhoto: photos and their URLs.  Every operation and the clock; the
\* JSON bodies name at most the photo, searches may carry has_photo; a
\* multipart request arrives when no other one is waiting for its handler.
PhotoBodies == {b \in JsonBodies : DOMAIN b \subseteq {"photo"}}

NamedForms == {b \in FormBodies : DOMAIN b = {"inventory_name"}}

NextPhoto ==
    \/ Tick
    \/ \E hasFile \in BOOLEAN : pending = EmptyBag /\ UploadRegister(hasFile, "p", 1)
    \/ \E hasFile \in BOOLEAN : pending = EmptyBag /\ UploadPhoto(hasFile, "p", 1)
    \/ \E r \in BagToSet(pending), body \in NamedForms : Register(r, body)
    \/ \E r \in BagToSet(pending), key \in PathKeys : UpdatePhoto(r, key)
    \/ List
    \/ \E key \in PathKeys : Get(key)
    \/ \E key \in PathKeys : GetPhoto(key)
    \/ \E key \in PathKeys, body \in PhotoBodies : UpdateFields(key, body)
    \/ \E key \in PathKeys : Delete(key)
    \/ \E body \in SearchBodies : Search(body)

SpecPhoto == Init /\ [][NextPhoto]_vars

\* SpecStore: the bytes of the photos.  File parts carry one of two
\* payloads; the clock advances; register, get, get photo, both updates and
\* delete; a multipart request arrives when no other one is waiting for its
\* handler.
FileBytes == {1, 2}

NextStore ==
    \/ Tick
    \/ \E hasFile \in BOOLEAN, bytes \in FileBytes :
          pending = EmptyBag /\ UploadRegister(hasFile, "p", bytes)
    \/ \E hasFile \in BOOLEAN, bytes \in FileBytes :
          pending = EmptyBag /\ UploadPhoto(hasFile, "p", bytes)
    \/ \E r \in BagToSet(pending), body \in NamedForms : Register(r, body)
    \/ \E r \in BagToSet(pending), key \in PathKeys : UpdatePhoto(r, key)
    \/ \E key \in PathKeys : Get(key)
    \/ \E key \in PathKeys : GetPhoto(key)
    \/ \E key \in PathKeys, body \in PhotoBodies : UpdateFields(key, body)
    \/ \E key \in PathKeys : Delete(key)

SpecStore == Init /\ [][NextStore]_vars

\* SpecView: the decorated view.  The JSON bodies name the photo and may
\* give it the empty string; register with or without a file part, list,
\* get, updateFields, delete and search; the clock stands still.
EmptyPhoto == [f \in {"photo"} |-> Str("")]

NextView ==
    \/ \E hasFile \in BOOLEAN : pending = EmptyBag /\ UploadRegister(hasFile, "p", 1)
    \/ \E r \in BagToSet(pending), body \in NameForms : Register(r, body)
    \/ List
    \/ \E key \in PathKeys : Get(key)
    \/ \E key \in PathKeys, body \in PhotoBodies \cup {EmptyPhoto} : UpdateFields(key, body)
    \/ \E key \in PathKeys : Delete(key)
    \/ \E body \in SearchBodies : Search(body)

SpecView == Init /\ [][NextView]_vars

\* ------------------------------------------------------------- properties
\* C1: no two items of the collection have the same id.
UniqueIds ==
    \A i, j \in 1..Len(inventory) :
        i # j => Prop(inventory[i], "id") # Prop(inventory[j], "id")

\* a form whose name is a non-empty string
NonEmptyName(body) == "inventory_name" \in DOMAIN body /\ body["inventory_name"] # Str("")

\* C2: a register request with a non-empty name answers 201, and the id it
\* returns is strictly greater than every id an earlier register returned.
RegisterIdsIncrease ==
    [][\A r \in BagToSet(pending), body \in FormBodies :
          (last'.op = "register" /\ NonEmptyName(body) /\ Register(r, body)) =>
              /\ last'.status = 201
              /\ \A k \in 1..Len(assigned) : last'.out[1]["id"].n > assigned[k].n]_vars

\* a register that succeeds after an earlier register and a delete
RegisteredAfterDelete ==
    /\ last.op = "register"
    /\ last.status = 201
    /\ Len(assigned) >= 2
    /\ deleted # {}

\* C3: once delete(id) has succeeded, get(id) answers 404 in every later
\* state, and no later register returns that id.
DeletedStaysGone ==
    \A d \in deleted :
        /\ GetResponse(ToStr(d[1])).status = 404
        /\ \A k \in (d[2] + 1)..Len(assigned) : assigned[k] # d[1]

\* C4: updateFields leaves the id of the item it reaches as it was.
UpdateFieldsKeepsId ==
    [][\A key \in PathKeys, body \in JsonBodies :
          (last'.op = "updateFields" /\ getItem(Str(key)) # 0 /\ UpdateFields(key, body)) =>
              Prop(inventory'[getItem(Str(key))], "id") = Prop(inventory[getItem(Str(key))], "id")]_vars

\* a form without a name, or with the empty string as name
EmptyOrMissingName(body) ==
    "inventory_name" \notin DOMAIN body \/ body["inventory_name"] = Str("")

\* C5: a register request with an empty or missing name answers 400 and
\* changes neither the collection nor the id counter.
RejectedRegisterChangesNothing ==
    [][\A r \in BagToSet(pending), body \in FormBodies :
          (last'.op = "register" /\ EmptyOrMissingName(body) /\ Register(r, body)) =>
              /\ last'.status = 400
              /\ inventory' = inventory
              /\ nextId' = nextId]_vars

\* a register was rejected while the collection held an item
RegisterRejected ==
    /\ last.op = "register"
    /\ last.status = 400
    /\ Len(inventory) >= 1

\* C6: get, list and search leave every stored item as it was.
ReadsLeaveItemsUnchanged ==
    [][(/\ last'.op \in {"list", "get", "search"}
        /\ \/ List
           \/ \E key \in PathKeys : Get(key)
           \/ \E body \in SearchBodies : Search(body)) => inventory' = inventory]_vars

\* C7: for every entry of the list, get of the entry's id answers 200 with
\* an item equal to the entry.
ListGetAgree ==
    \A i \in 1..Len(ListBody) :
        LET answer == GetResponse(ToStr(Prop(ListBody[i], "id")))
        IN answer.status = 200 /\ answer.out = <<ListBody[i]>>

\* C8: when register, updatePhoto or updateFields gives an item a photo,
\* a file of that name is in the cache directory.
PhotoSetHasFile ==
    [][(/\ last'.op \in {"register", "updatePhoto", "updateFields"}
        /\ \/ \E r \in BagToSet(pending), body \in FormBodies : Register(r, body)
           \/ \E r \in BagToSet(pending), key \in PathKeys : UpdatePhoto(r, key)
           \/ \E key \in PathKeys, body \in JsonBodies : UpdateFields(key, body)) =>
          \A i \in 1..Len(inventory') :
              LET photo == Prop(inventory'[i], "photo")
              IN (/\ i > Len(inventory) \/ Prop(inventory[i], "photo") # photo
                  /\ photo \notin {Null, Undef}) =>
                     (photo.t = "str" /\ photo.s \in DOMAIN files')]_vars

\* the i-th item carries the id written in the path
HasId(i, key) == ToStr(Prop(inventory[i], "id")) = key

\* C9: in every reachable state, updateFields on the id of an item changes
\* that item only, and of it only the fields the body names; on an id no
\* item has, it answers 404 and changes nothing.
UpdateFieldsFrame ==
    \A key \in PathKeys, body \in JsonBodies :
        LET after == UpdateFieldsInventory(key, body)
            answer == UpdateFieldsResponse(key, body)
        IN IF \E i \in 1..Len(inventory) : HasId(i, key)
           THEN /\ answer.status = 200
                /\ Len(after) = Len(inventory)
                /\ \E i \in 1..Len(inventory) :
                     /\ HasId(i, key)
                     /\ \A j \in 1..Len(inventory) : j # i => after[j] = inventory[j]
                     /\ DOMAIN after[i] \subseteq DOMAIN inventory[i] \cup DOMAIN body
                     /\ \A f \in DOMAIN inventory[i] \ DOMAIN body :
                           f \in DOMAIN after[i] /\ after[i][f] = inventory[i][f]
           ELSE /\ answer.status = 404
                /\ after = inventory

\* updateFields has just given the second of two items a description; the
\* item still has its name and its photo
DescriptionUpdated ==
    /\ last.op = "updateFields"
    /\ last.status = 200
    /\ Len(inventory) = 2
    /\ last.out = <<inventory[2]>>
    /\ inventory[2]["description"] = Str("e")
    /\ inventory[2]["inventory_name"] = Str("a")
    /\ inventory[2]["photo"] = Str("0_p")

\* C10: no id is given to two items, whatever the order in which the
\* handlers of the register requests in flight run.
NoIdAssignedTwice ==
    \A i, j \in 1..Len(assigned) : i # j => assigned[i] # assigned[j]

\* two registers got their ids, one of them while another register request
\* was waiting for its handler
InterleavedRegisters ==
    /\ overlapped
    /\ Len(assigned) >= 2
    /\ pending = EmptyBag

\* C11: a file part stored by multer gets a filename that no earlier stored
\* file part got, also when both have the same original name and are stored
\* at the same clock value.  (Only multer writes the cache directory and
\* nothing removes a file, so the names given so far are DOMAIN files.)
StoreNamesDiffer ==
    [][\A op \in {"register", "updatePhoto"} :
          Multer(op, TRUE, "p", 1) => Filename(now, "p") \notin DOMAIN files]_vars

\* C12: a register with a file part gives the item the filename multer gave
\* the file part, GET photo for the new id then sends the bytes of that file
\* part, and no later step changes the bytes GET photo sends for an id,
\* unless the step is updatePhoto or updateFields on that id or the item is
\* no longer there.
PhotoBytesKept ==
    [][/\ \A r \in BagToSet(pending), body \in FormBodies, key \in PathKeys :
            (/\ last'.op = "register" /\ last'.status = 201
             /\ Truthy(r.file)
             /\ Register(r, body)
             /\ ToStr(last'.out[1]["id"]) = key) =>
                /\ GetResponse(key)'.status = 200
                /\ GetResponse(key)'.out[1]["photo"] = r.file
                /\ GetPhotoResponse(key)' = Response("getPhoto", 200, <<>>, r.bytes)
       /\ \A key \in PathKeys :
            (/\ GetPhotoResponse(key).status = 200
             /\ GetResponse(key)'.status = 200
             /\ ~\E r \in BagToSet(pending) : UpdatePhoto(r, key)
             /\ ~\E body \in JsonBodies : UpdateFields(key, body)) =>
                GetPhotoResponse(key)' = GetPhotoResponse(key)]_vars

\* C13: in every reachable state and for every PUT /inventory/:id/photo
\* request waiting for its handler, the handler answers 404 on an id no item
\* has (with or without a file part) and 400 on the id of an item when there
\* is no file part, changing nothing in both cases; otherwise it answers
\* 200 and gives one item of that id the new filename as photo, every other
\* field and every other item staying as they were.
UpdatePhotoFrame ==
    \A key \in PathKeys, r \in BagToSet(pending) :
        r.op = "updatePhoto" =>
            LET after == UpdatePhotoInventory(r, key)
                answer == UpdatePhotoResponse(r, key)
            IN IF ~\E i \in 1..Len(inventory) : HasId(i, key)
               THEN answer.status = 404 /\ after = inventory
               ELSE IF r.file = Undef
               THEN answer.status = 400 /\ after = inventory
               ELSE /\ answer.status = 200
                    /\ Len(after) = Len(inventory)
                    /\ \E i \in 1..Len(inventory) :
                         /\ HasId(i, key)
                         /\ answer.out = <<after[i]>>
                         /\ \A j \in 1..Len(inventory) : j # i => after[j] = inventory[j]
                         /\ DOMAIN after[i] = DOMAIN inventory[i]
                         /\ after[i]["photo"] = r.file
                         /\ \A f \in DOMAIN inventory[i] \ {"photo"} :
                               after[i][f] = inventory[i][f]

\* updatePhoto has just given the second of two items the file stored at
\* clock value 1; the first item keeps the file stored at clock value 0
PhotoReplaced ==
    /\ last.op = "updatePhoto"
    /\ last.status = 200
    /\ Len(inventory) = 2
    /\ last.out = <<inventory[2]>>
    /\ inventory[2]["photo"] = Str("1_p")
    /\ inventory[1]["photo"] = Str("0_p")

\* C14: every item of the collection has a name that is a non-empty string.
NamesNonEmpty ==
    \A i \in 1..Len(inventory) :
        LET name == Prop(inventory[i], "inventory_name")
        IN name.t = "str" /\ name.s # ""

\* the ids register returned for which no delete has succeeded, in the
\* order in which they were returned
LiveIds == SelectSeq(assigned, LAMBDA id : id \notin {d[1] : d \in deleted})

NonNumericKeys == {Str("abc"), True}

\* C16: in every reachable state a lookup key that is not a number matches
\* no item: get, updateFields, updatePhoto and delete with the key in the
\* path and search with the key in the body all answer 404; and search of
\* a key answers 200 exactly when get of that key does.
NonNumericKeyNotFound ==
    /\ \A v \in NonNumericKeys :
         /\ GetResponse(ToStr(v)).status = 404
         /\ \A body \in JsonBodies : UpdateFieldsResponse(ToStr(v), body).status = 404
         /\ \A r \in BagToSet(pending) :
               r.op = "updatePhoto" => UpdatePhotoResponse(r, ToStr(v)).status = 404
         /\ DeleteResponse(ToStr(v)).status = 404
         /\ \A body \in SearchBodies :
               Prop(body, "id") = v => SearchResponse(body).status = 404
    /\ \A body \in SearchBodies :
         "id" \in DOMAIN body =>
             ((SearchResponse(body).status = 200) <=> (GetResponse(ToStr(body["id"])).status = 200))

\* the photo_url of a decorated item: null when the item has no photo,
\* else the base address, "/images/" and the photo
UrlOfPhoto(e) ==
    IF Prop(e, "photo") \in {Null, Undef}
    THEN Null
    ELSE Str(Base \o "/images/" \o ToStr(Prop(e, "photo")))

\* every decorated item of the list and of get has the photo_url of its photo
ViewUrls ==
    /\ \A i \in 1..Len(ListBody) : Prop(ListBody[i], "photo_url") = UrlOfPhoto(ListBody[i])
    /\ \A key \in PathKeys :
         GetResponse(key).status = 200 =>
             Prop(GetResponse(key).out[1], "photo_url") = UrlOfPhoto(GetResponse(key).out[1])

\* C17: the first register that succeeds, sent with a name and nothing
\* else, appends the item {id 1, that name, description "", photo null},
\* whose decorated view has photo_url null; and after every step each
\* decorated item has photo_url null exactly when it has no photo, and
\* otherwise the base address followed by "/images/" and the photo.
FirstItemAndUrls ==
    [][/\ \A r \in BagToSet(pending), body \in FormBodies :
            (/\ assigned = <<>>
             /\ last'.op = "register" /\ last'.status = 201
             /\ r.file = Undef
             /\ DOMAIN body = {"inventory_name"}
             /\ Register(r, body)) =>
                /\ inventory' = Append(inventory,
                       [f \in {"id", "inventory_name", "description", "photo"} |->
                           CASE f = "id" -> Num(1)
                             [] f = "inventory_name" -> body["inventory_name"]
                             [] f = "description" -> Str("")
                             [] OTHER -> Null])
                /\ Prop(GetResponse("1")'.out[1], "photo_url") = Null
       /\ ViewUrls']_vars

\* C18: every item sent by get, list, search, updateFields or updatePhoto
\* that has a photo_url field has there the URL derived from the photo it
\* is sent with.
SentUrlsCurrent ==
    last.op \in {"get", "list", "search", "updateFields", "updatePhoto"} =>
        \A i \in 1..Len(last.out) :
            "photo_url" \in DOMAIN last.out[i] =>
                last.out[i]["photo_url"] = PhotoUrl(last.out[i])

\* C19: a delete on the id of an item answers 200 and takes one item of
\* that id out of the collection, the other items staying as they were and
\* in their order; a delete on an id no item has answers 404 and leaves the
\* collection as it was; neither changes the id counter.
DeleteFrame ==
    [][\A key \in PathKeys :
          (last'.op = "delete" /\ Delete(key)) =>
              /\ nextId' = nextId
              /\ IF \E i \in 1..Len(inventory) : HasId(i, key)
                 THEN /\ last'.status = 200
                      /\ Len(inventory') = Len(inventory) - 1
                      /\ \E i \in 1..Len(inventory) :
                           /\ HasId(i, key)
                           /\ \A j \in 1..Len(inventory') :
                                 inventory'[j] = IF j < i THEN inventory[j] ELSE inventory[j + 1]
                 ELSE /\ last'.status = 404
                      /\ inventory' = inventory]_vars

\* the first of two items has just been deleted; the second one is left
\* and the counter is past both ids
FirstOfTwoDeleted ==
    /\ last.op = "delete"
    /\ last.status = 200
    /\ assigned = <<Num(1), Num(2)>>
    /\ Len(inventory) = 1
    /\ inventory[1]["id"] = Num(2)
    /\ nextId = 3

\* C20: when a register is rejected for its name, or an updatePhoto for its
\* id, the file part the request came with is not in the cache directory
\* afterwards, unless it is the photo of an item.
RejectedLeavesNoFile ==
    [][\A r \in BagToSet(pending) :
          (/\ r.file # Undef
           /\ \/ /\ last'.op = "register" /\ last'.status = 400
                 /\ \E body \in FormBodies : Register(r, body)
              \/ /\ last'.op = "updatePhoto" /\ last'.status = 404
                 /\ \E key \in PathKeys : UpdatePhoto(r, key)) =>
              \/ r.file.s \notin DOMAIN files'
              \/ \E i \in 1..Len(inventory') : Prop(inventory'[i], "photo") = r.file]_vars
====
